---- MODULE Spec2Model ----
(***************************************************************************)
(* A model of UFPS (src/ufps): the frame-rate option solver                *)
(* get_fps_options (utils.py) and the processing pipeline process_video    *)
(* with VideoProcessor and RIFEInterpolator (core.py).                     *)
(*                                                                         *)
(* Frame rates are rationals on a grid of 1/Unit fps and are held as       *)
(* integers (rate * Unit).  On that grid every comparison of the code      *)
(* (target > current_fps, target/current_fps <= m, |actual - target| < 1,  *)
(* actual <= 240) has the same outcome in exact arithmetic as in Python's  *)
(* floats: a grid rate that makes a comparison an equality is a multiple   *)
(* of 1/2 or 1/4 and so is held exactly by a float, and every other grid   *)
(* rate is further than 1/(100 * 250) from the boundary.                   *)
(***************************************************************************)
EXTENDS Integers, Sequences, FiniteSets, TLC

\* ------------------------------------------------------------------------
\* Bounds of the model
\* ------------------------------------------------------------------------

\* resolution of the frame-rate grid: rates are multiples of 1/Unit fps
Unit == 100

\* largest current_fps (in fps) given to get_fps_options
MaxCurrentFps == 250

\* number of names mkdtemp can draw for a temporary directory
MaxTmpNames == 2

\* the longest list of streams in the output of ffprobe
MaxStreams == 3

\* number of calls of process_video that overlap in time
MaxRuns == 2

\* the longest answer typed at the prompt of the uninstaller
MaxResponseLen == 2

\* ------------------------------------------------------------------------
\* utils.py: get_fps_options
\* ------------------------------------------------------------------------

\* utils.py:126 with a rate above 240 added to the list
standard_fps_with_480 ==
    <<24, 25, 30, 48, 50, 60, 90, 96, 100, 120, 144, 180, 240, 480>>

\* utils.py:126
standard_fps == <<24, 25, 30, 48, 50, 60, 90, 96, 100, 120, 144, 180, 240>>

\* utils.py:154, the cap on an option that is not exact
MaxActual == 240

Abs(x) == IF x < 0 THEN -x ELSE x

\* utils.py:131-144 with scale_needed compared by < instead of <=
select_scale_strict(cur, target) ==
    IF target * Unit < 2 * cur THEN 2
    ELSE IF target * Unit < 4 * cur THEN 4
    ELSE IF target * Unit < 8 * cur THEN 8
    ELSE 0

\* utils.py:131-144: the multiplier chosen for one target (0: target skipped).
\* scale_needed = target / current_fps is compared with 2, 4, 8.
select_scale(cur, target) ==
    IF target * Unit <= 2 * cur THEN 2
    ELSE IF target * Unit <= 4 * cur THEN 4
    ELSE IF target * Unit <= 8 * cur THEN 8
    ELSE 0

\* utils.py:135, with actual_fps taken from the target instead of current_fps * scale
option_for_target(cur, target) ==
    IF target * Unit > cur /\ select_scale(cur, target) # 0
    THEN LET scale == select_scale(cur, target)
             actual == cur * scale
         IN  IF Abs(actual - target * Unit) < Unit
             THEN <<[target |-> target * Unit, actual |-> target * Unit,
                     scale |-> scale, exact |-> TRUE]>>
             ELSE IF actual <= MaxActual * Unit
             THEN <<[target |-> actual, actual |-> actual,
                     scale |-> scale, exact |-> FALSE]>>
             ELSE <<>>
    ELSE <<>>

\* utils.py:130-160: the options appended for one target (none or one)
option_for(cur, target) ==
    IF target * Unit > cur /\ select_scale(cur, target) # 0
    THEN LET scale == select_scale(cur, target)
             actual == cur * scale
         IN  IF Abs(actual - target * Unit) < Unit
             THEN <<[target |-> target * Unit, actual |-> actual,
                     scale |-> scale, exact |-> TRUE]>>
             ELSE IF actual <= MaxActual * Unit
             THEN <<[target |-> actual, actual |-> actual,
                     scale |-> scale, exact |-> FALSE]>>
             ELSE <<>>
    ELSE <<>>

\* utils.py:128-160: the loop over standard_fps, in order
RECURSIVE collect_options(_, _)
collect_options(cur, i) ==
    IF i > Len(standard_fps) THEN <<>>
    ELSE option_for(cur, standard_fps[i]) \o collect_options(cur, i + 1)

\* utils.py:162-169 without the seen set: every option is kept
remove_duplicates_none(options, seen) == options

\* utils.py:162-169: keep the first option of every (actual, scale) key
RECURSIVE remove_duplicates(_, _)
remove_duplicates(options, seen) ==
    IF options = <<>> THEN <<>>
    ELSE LET opt == Head(options)
             key == <<opt.actual, opt.scale>>
         IN  IF key \in seen
             THEN remove_duplicates(Tail(options), seen)
             ELSE <<opt>> \o remove_duplicates(Tail(options), seen \cup {key})

\* insertion of one option into a list sorted by actual, after its equals
\* (sorted() is stable)
RECURSIVE insert_by_actual(_, _)
insert_by_actual(opt, sorted) ==
    IF sorted = <<>> THEN <<opt>>
    ELSE IF Head(sorted).actual <= opt.actual
         THEN <<Head(sorted)>> \o insert_by_actual(opt, Tail(sorted))
         ELSE <<opt>> \o sorted

\* utils.py:171: sorted(unique_options, key=actual), options[1..n] sorted
RECURSIVE sorted_by_actual(_, _)
sorted_by_actual(options, n) ==
    IF n = 0 THEN <<>>
    ELSE insert_by_actual(options[n], sorted_by_actual(options, n - 1))

\* utils.py:124-171
get_fps_options(cur) ==
    LET unique_options == remove_duplicates(collect_options(cur, 1), {})
    IN  sorted_by_actual(unique_options, Len(unique_options))

\* ------------------------------------------------------------------------
\* core.py: the environment of one call
\* ------------------------------------------------------------------------

\* core.py:133, the candidate entry points in the order they are tried
scripts == <<"inference_video.py", "inference_img.py", "inference.py">>

\* core.py:140-146 and 157-162: a candidate is invoked with --modelDir (1)
\* and then without it (2)
WithModelDir == 1
WithoutModelDir == 2
Variants == {WithModelDir, WithoutModelDir}

\* core.py:5-11: the names core.py imports are os, subprocess, shutil,
\* tempfile, Path, math and datetime.  sys is used at lines 114, 141 and 158
\* and is not among them, so evaluating it raises NameError.
sys_defined == FALSE

\* what the file system holds when a call starts: whether shutil.which finds
\* ffmpeg and ffprobe, whether the RIFE and the models directory exist, and
\* which candidate scripts exist in the RIFE directory
Environments ==
    {e \in [ffmpeg_found : BOOLEAN, rife_dir_exists : BOOLEAN,
             models_dir_exists : BOOLEAN,
             script_exists : SUBSET (1 .. Len(scripts))] :
        e.script_exists # {} => e.rife_dir_exists}

\* the result of one run of an inference script (subprocess.run, core.py:148
\* and 164): its exit status and whether it wrote frames to the output directory
InvocationOutcomes == [returncode : {0, 1}, wrote : BOOLEAN]

\* how the external tools answer during one call: the exit status of ffmpeg
\* for frame extraction and for encoding, whether the audio file exists after
\* the audio extraction, and the outcome of every script invocation
ToolBehaviours(e) ==
    [extract : {0, 1}, audio_exists : BOOLEAN, encode : {0, 1},
     interp : [e.script_exists \X Variants -> InvocationOutcomes]]

NoError == "none"
FFmpegNotFound == "RuntimeError: FFmpeg not found"
RIFENotFound == "RuntimeError: RIFE not found"
ModelsNotFound == "RuntimeError: Models not found"
SysNameError == "NameError: name 'sys' is not defined"
ExtractionFailed == "RuntimeError: Failed to extract frames"
InterpolationFailed == "RuntimeError: RIFE interpolation failed"
EncodingFailed == "RuntimeError: Failed to encode video"

\* core.py:39, 94 and 171: the stage an error message names ("Failed to
\* extract frames", "Failed to encode video", "RIFE interpolation failed")
error_stage(err) ==
    CASE err = ExtractionFailed -> "extract_frames"
      [] err = InterpolationFailed -> "interpolate"
      [] err = EncodingFailed -> "encode_video"
      [] OTHER -> "no stage"

\* core.py:39, 94 and 171: the messages at lines 39 and 94 are f-strings
\* that end with result.stderr; the message at line 171 is a constant
error_has_stderr(err) == err \in {ExtractionFailed, EncodingFailed}

\* ------------------------------------------------------------------------
\* core.py: VideoProcessor and RIFEInterpolator
\* ------------------------------------------------------------------------

\* core.py:16-21
VideoProcessor_init(e) ==
    IF ~e.ffmpeg_found THEN FFmpegNotFound ELSE NoError

\* core.py:102-114
RIFEInterpolator_init(e) ==
    IF ~e.rife_dir_exists THEN RIFENotFound
    ELSE IF ~e.models_dir_exists THEN ModelsNotFound
    ELSE IF ~sys_defined THEN SysNameError
    ELSE NoError

\* the result of a call of interpolate: the error raised (or none), the value
\* returned, the invocations made in order, and the invocations whose frames
\* are in the output directory
InterpResult(err, ret, invs, files) ==
    [err |-> err, ret |-> ret, invs |-> invs, files |-> files]

\* core.py:148-154 and 164-169: one invocation, then the test of its exit
\* status and of the output directory (glob of every png in it)
invoke(t, i, v, invs, files) ==
    LET out == t.interp[<<i, v>>]
        files1 == IF out.wrote THEN files \cup {<<i, v>>} ELSE files
    IN  [invs |-> Append(invs, <<i, v>>), files |-> files1,
         done |-> out.returncode = 0 /\ files1 # {}]

\* core.py:135-171: the loop over the candidate scripts, from candidate i on
RECURSIVE try_scripts(_, _, _, _, _)
try_scripts(e, t, i, invs, files) ==
    IF i > Len(scripts)
    THEN InterpResult(InterpolationFailed, 0, invs, files)
    ELSE IF i \notin e.script_exists
    THEN try_scripts(e, t, i + 1, invs, files)
    ELSE IF ~sys_defined
    THEN InterpResult(SysNameError, 0, invs, files)
    ELSE LET a == invoke(t, i, WithModelDir, invs, files)
         IN  IF a.done
             THEN InterpResult(NoError, Cardinality(a.files), a.invs, a.files)
             ELSE LET b == invoke(t, i, WithoutModelDir, a.invs, a.files)
                  IN  IF b.done
                      THEN InterpResult(NoError, Cardinality(b.files), b.invs, b.files)
                      ELSE try_scripts(e, t, i + 1, b.invs, b.files)

\* the result of a call of a VideoProcessor method: the error raised (or
\* none), the value returned, and whether the ffmpeg command had the audio
\* file as a second input
VpResult(err, ret, audio_input) ==
    [err |-> err, ret |-> ret, audio_input |-> audio_input]

\* core.py:23-42, for the exit status rc of ffmpeg
extract_frames(rc) ==
    IF rc # 0 THEN VpResult(ExtractionFailed, "nothing", FALSE)
    ELSE VpResult(NoError, "frame_count", FALSE)

\* core.py:44-57, for the exit status rc of ffmpeg (not looked at) and
\* whether the audio file exists afterwards
extract_audio(rc, exists) ==
    VpResult(NoError, IF exists THEN "output_path" ELSE "None", FALSE)

\* core.py:33, the name pattern of the frames extract_frames writes
extract_frames_pattern == "frame_%08d.png"

\* core.py:67 and 81, the name pattern of the frames encode_video reads, in
\* the command with the audio input and in the command without it
encode_video_pattern(audio_input) ==
    IF audio_input THEN "frame_%08d.png" ELSE "frame_%08d.png"

\* core.py:59-96 as if the test at line 63 were "if audio_path:" alone
encode_video_audio_if_given(audio_given, audio_exists, rc) ==
    IF rc # 0
    THEN VpResult(EncodingFailed, "nothing", audio_given)
    ELSE VpResult(NoError, "output_path", audio_given)

\* core.py:59-96, for an audio_path argument (given or None), whether that
\* file exists, and the exit status rc of ffmpeg
encode_video(audio_given, audio_exists, rc) ==
    IF rc # 0
    THEN VpResult(EncodingFailed, "nothing", audio_given /\ audio_exists)
    ELSE VpResult(NoError, "output_path", audio_given /\ audio_exists)

\* ------------------------------------------------------------------------
\* core.py: process_video
\* ------------------------------------------------------------------------

\* the outcome of the try block of process_video: the error raised (or
\* none), the value returned, the stages started in order, the percentages
\* given to progress_callback, and the call of interpolate made (if any)
PvResult(err, ret, stages, progress, interp) ==
    [err |-> err, ret |-> ret, stages |-> stages, progress |-> progress,
     interp |-> interp]

NoInterp == InterpResult(NoError, 0, <<>>, {})

\* core.py:188-220: the try block, for the environment e and the tools t
process_video_try(e, t) ==
    IF VideoProcessor_init(e) # NoError
    THEN PvResult(VideoProcessor_init(e), FALSE, <<>>, <<>>, NoInterp)
    ELSE IF RIFEInterpolator_init(e) # NoError
    THEN PvResult(RIFEInterpolator_init(e), FALSE, <<>>, <<>>, NoInterp)
    ELSE IF t.extract # 0
    THEN PvResult(ExtractionFailed, FALSE, <<"extract_frames">>, <<0>>, NoInterp)
    ELSE LET ir == try_scripts(e, t, 1, <<>>, {})
         IN  IF ir.err # NoError
             THEN PvResult(ir.err, FALSE, <<"extract_frames", "interpolate">>,
                           <<0, 25>>, ir)
             ELSE IF t.encode # 0
             THEN PvResult(EncodingFailed, FALSE,
                           <<"extract_frames", "interpolate", "extract_audio",
                             "encode_video">>, <<0, 25, 50, 75>>, ir)
             ELSE PvResult(NoError, TRUE,
                           <<"extract_frames", "interpolate", "extract_audio",
                             "encode_video">>, <<0, 25, 50, 75, 100>>, ir)

\* ------------------------------------------------------------------------
\* utils.py: get_video_info
\* ------------------------------------------------------------------------

\* the kinds of stream in the output of ffprobe
StreamKinds == {"video", "audio", "subtitle"}

\* numerators and denominators of the r_frame_rate strings of the model
RateNums == {0, 30}
RateDens == {0, 1}

\* the r_frame_rate field of a stream: absent, "num/den" or a bare number
FrameRateFields ==
    {[form |-> "missing", num |-> 0, den |-> 0]}
        \cup {[form |-> "ratio", num |-> n, den |-> d] :
                 n \in RateNums, d \in RateDens}
        \cup {[form |-> "bare", num |-> n, den |-> 1] : n \in RateNums}

Streams == [codec_type : StreamKinds, r_frame_rate : FrameRateFields]

\* the lists of at most n streams
StreamLists(n) == UNION {[1 .. k -> Streams] : k \in 0 .. n}

\* a frame rate as the float num / den (den is never 0 here)
Rate(num, den) == [num |-> num, den |-> den]

\* utils.py:76, the literal 30.0, and utils.py:73, the default '30/1'
DefaultRate == Rate(30, 1)

ProbeNotFound == "RuntimeError: ffprobe not found"
ProbeFailed == "RuntimeError: Failed to get video info"
ProbeUnparseable == "JSONDecodeError"
NoVideoStream == "RuntimeError: No video stream found"

\* utils.py:64-68: the index of the first stream of kind video, 0 for None
find_video_stream(streams) ==
    IF \E i \in DOMAIN streams : streams[i].codec_type = "video"
    THEN CHOOSE i \in DOMAIN streams :
             /\ streams[i].codec_type = "video"
             /\ \A j \in 1 .. i - 1 : streams[j].codec_type # "video"
    ELSE 0

\* utils.py:64-68 as if the loop stopped at the first video stream: only
\* the streams before it are looked at
find_audio_stream_before_video(streams) ==
    IF \E i \in DOMAIN streams :
           /\ streams[i].codec_type = "audio"
           /\ \A j \in 1 .. i - 1 : streams[j].codec_type # "video"
    THEN CHOOSE i \in DOMAIN streams :
             /\ streams[i].codec_type = "audio"
             /\ \A j \in 1 .. i - 1 : streams[j].codec_type # "audio"
    ELSE 0

\* utils.py:64-68: the index of the first stream of kind audio, 0 for None
\* (the elif is skipped only for a stream of kind video)
find_audio_stream(streams) ==
    IF \E i \in DOMAIN streams : streams[i].codec_type = "audio"
    THEN CHOOSE i \in DOMAIN streams :
             /\ streams[i].codec_type = "audio"
             /\ \A j \in 1 .. i - 1 : streams[j].codec_type # "audio"
    ELSE 0

\* utils.py:73-79: a missing field reads as '30/1'; "num/den" is num / den
\* unless den is 0; a string without '/' is float(fps_str)
parse_frame_rate(field) ==
    IF field.form = "missing" THEN Rate(30, 1)
    ELSE IF field.form = "ratio"
         THEN IF field.den # 0 THEN Rate(field.num, field.den)
              ELSE DefaultRate
         ELSE Rate(field.num, 1)

NoInfo == [fps |-> Rate(0, 1), has_audio |-> FALSE, video_stream |-> 0]

ProbeResult(err, info) == [err |-> err, info |-> info]

\* utils.py:37-98; of the descriptor the model keeps fps and has_audio, and
\* the index of the stream the descriptor was built from
get_video_info(ffprobe_found, returncode, parseable, streams) ==
    IF ~ffprobe_found THEN ProbeResult(ProbeNotFound, NoInfo)
    ELSE IF returncode # 0 THEN ProbeResult(ProbeFailed, NoInfo)
    ELSE IF ~parseable THEN ProbeResult(ProbeUnparseable, NoInfo)
    ELSE IF find_video_stream(streams) = 0
         THEN ProbeResult(NoVideoStream, NoInfo)
    ELSE ProbeResult(NoError,
            [fps |-> parse_frame_rate(
                         streams[find_video_stream(streams)].r_frame_rate),
             has_audio |-> find_audio_stream(streams) # 0,
             video_stream |-> find_video_stream(streams)])

\* get_video_info has not been called
NoProbe == [pc |-> "idle", ffprobe_found |-> TRUE, returncode |-> 0,
            parseable |-> TRUE, streams |-> << >>,
            err |-> NoError, info |-> NoInfo]

\* ------------------------------------------------------------------------
\* interface.py: InteractiveCLI.run
\* ------------------------------------------------------------------------

\* interface.py:81-102
check_requirements(e) ==
    e.ffmpeg_found /\ e.rife_dir_exists /\ e.models_dir_exists

\* the outputs of ffprobe for the selected file in a run of the CLI
CliStreamLists == StreamLists(1)

\* the frame rate of a descriptor on the grid of get_fps_options
GridRate(r) == (r.num * Unit) \div r.den

CliException == "exception"

\* run has not been called: no exit status, no call made, no option chosen,
\* no scale and target_fps given to process_video
NoCli == [pc |-> "idle", exit |-> "none", events |-> << >>,
          selected |-> 0, temp_dirs_made |-> 0,
          scale |-> 0, target_fps |-> 0]

\* ------------------------------------------------------------------------
\* core.py: calls of process_video that overlap in time
\* ------------------------------------------------------------------------

\* core.py:189-209: what the stages of a run have put in its temporary
\* directory (frames by extract_frames, interpolated by interpolate,
\* audio.aac by extract_audio when the file exists)
written_by(stages, t) ==
    {st \in {"extract_frames", "interpolate"} :
        \E k \in DOMAIN stages : stages[k] = st}
      \cup {st \in {"extract_audio"} :
               /\ \E k \in DOMAIN stages : stages[k] = st
               /\ t.audio_exists}

\* a call that has not started
NoRun == [pc |-> "idle", temp_dir |-> 0, err |-> NoError, wrote |-> {}]

\* no call is in progress and no file is in a temporary directory
NoRuns == [of |-> << >>, files |-> {}]

\* ------------------------------------------------------------------------
\* install.py
\* ------------------------------------------------------------------------

\* install.py:453-462, the installation steps in the order main runs them
steps == <<"setup_virtual_environment", "install_python_packages",
           "setup_rife", "download_models", "setup_ffmpeg",
           "copy_main_script", "create_wrapper_script", "save_config">>

\* install.py:469, the steps whose failure ends the loop
critical == {"setup_virtual_environment", "setup_rife"}

\* what the test of a fresh installation looks for (test_install.py:150-175)
installed == {"INSTALL_DIR", "VENV_DIR", "cli.py", "config.json", "wrapper"}

\* the step after step name in the list, "finish" after the last
next_step(name) ==
    LET k == CHOOSE i \in DOMAIN steps : steps[i] = name
    IN  IF k = Len(steps) THEN "finish" ELSE steps[k + 1]

\* install.py:464-470, the loop body for the step name whose function has
\* returned result and left files on the disk: a falsy result sets failed,
\* and ends the loop when the step is critical
after_step(i, name, result, files) ==
    [i EXCEPT !.files = files,
              !.failed = IF result THEN @ ELSE TRUE,
              !.pc = IF ~result /\ name \in critical THEN "finish"
                     ELSE next_step(name)]

\* the installer has not been started
NoInst == [pc |-> "idle", failed |-> FALSE, files |-> {}, exit |-> "none",
           ufps_old |-> FALSE]

\* ------------------------------------------------------------------------
\* uninstall.py
\* ------------------------------------------------------------------------

\* the characters of an answer at the prompt
Chars == {" ", "y", "Y", "n"}

\* the answers of at most n characters
Responses(n) == UNION {[1 .. k -> Chars] : k \in 0 .. n}

\* str.lower, one character
lower_char(c) == IF c = "Y" THEN "y" ELSE c

\* str.lower
lower(r) == [k \in DOMAIN r |-> lower_char(r[k])]

RECURSIVE strip(_)
\* str.strip: leading and trailing blanks removed
strip(r) ==
    IF r = << >> THEN r
    ELSE IF Head(r) = " " THEN strip(Tail(r))
    ELSE IF r[Len(r)] = " " THEN strip(SubSeq(r, 1, Len(r) - 1))
    ELSE r

\* uninstall.py:62-63: the answer is accepted when, stripped and in lower
\* case, it is 'y'
confirm_uninstall(r) == lower(strip(r)) = <<"y">>

\* uninstall.py:65-94: the files left by remove_installation when rmtree and
\* unlink succeed or not; the bin directory is removed when it is empty
remove_installation(files, rmtree_ok, unlink_ok) ==
    LET after_dir == IF "INSTALL_DIR" \in files /\ rmtree_ok
                     THEN files \ {"INSTALL_DIR"} ELSE files
        after_wrapper == IF "wrapper" \in after_dir /\ unlink_ok
                         THEN after_dir \ {"wrapper"} ELSE after_dir
    IN  IF "BIN_DIR" \in after_wrapper
           /\ after_wrapper \cap {"wrapper", "other_in_bin"} = {}
        THEN after_wrapper \ {"BIN_DIR"} ELSE after_wrapper

\* uninstall.py:69-84: what failed_items holds
failed_items(files, rmtree_ok, unlink_ok) ==
    {f \in {"INSTALL_DIR"} : f \in files /\ ~rmtree_ok}
        \cup {f \in {"wrapper"} : f \in files /\ ~unlink_ok}

\* the uninstaller has not been started
NoUninst == [pc |-> "idle", files |-> {}, before |-> {}, response |-> << >>,
             confirmed |-> FALSE, failed |-> {}, exit |-> "none"]

\* ------------------------------------------------------------------------
\* core.py: calls of interpolate that overlap in time in one process
\* ------------------------------------------------------------------------

\* core.py:123 as if the exponent were half the scale
exp_value_half(scale) == scale \div 2

\* core.py:123, int(math.log2(scale)) for a scale of 1 or more
RECURSIVE exp_value(_)
exp_value(scale) == IF scale < 2 THEN 0 ELSE 1 + exp_value(scale \div 2)

\* the scale argument of a call: a multiplier of get_fps_options
\* (utils.py:136-142)
Scales == {2, 4, 8}

\* a call of interpolate that has not started: the directory it saved, its
\* scale and exponent, the error it raised, the number of invocations it
\* made and the working directory its search over the scripts ran in
NoInterpCall == [pc |-> "idle", original_dir |-> "none", scale |-> 0,
                 exp |-> 0, err |-> NoError, invocations |-> 0,
                 loop_cwd |-> "none"]

\* ------------------------------------------------------------------------
\* State
\* ------------------------------------------------------------------------

VARIABLES
    current_fps,     \* the argument of get_fps_options, in 1/Unit fps
    fps_options,     \* the list get_fps_options returned
    fps_pc,          \* "call" before get_fps_options ran, "done" after
    env,             \* the file system the call sees (an Environments record)
    tools,           \* how the external tools answered during the call
    op,              \* the function called: process_video or interpolate
    pc,              \* the position of the call
    temp_dir,        \* process_video: the directory mkdtemp made (0: none)
    tmpdirs,         \* the temporary directories that exist
    pv_result,       \* process_video: the outcome of the try block
    interp_result,   \* interpolate: the outcome of the try block
    cwd,             \* the working directory of the process
    original_dir,    \* interpolate: the directory saved at line 126
    vp_result,       \* a VideoProcessor method called directly: its outcome
    probe,           \* get_video_info: the ffprobe answer and the outcome
    cli,             \* InteractiveCLI.run: its position and what it did
    runs,            \* overlapping runs of process_video, one record each
    inst,            \* install.py: its position and the installed files
    uninst           \* uninstall.py: its position and the installed files

fps_vars == <<current_fps, fps_options, fps_pc>>
call_vars == <<env, tools, op, pc, temp_dir, tmpdirs, pv_result,
               interp_result, cwd, original_dir>>
app_vars == <<probe, cli, runs, inst, uninst>>
vars == <<current_fps, fps_options, fps_pc, env, tools, op, pc, temp_dir,
          tmpdirs, pv_result, interp_result, cwd, original_dir, vp_result,
          probe, cli, runs, inst, uninst>>

TmpNames == 1 .. MaxTmpNames
NoTools == [extract |-> 0, audio_exists |-> FALSE, encode |-> 0,
            interp |-> <<>>]
NoPvResult == PvResult(NoError, FALSE, <<>>, <<>>, NoInterp)
StartDir == "start_dir"
RifeDir == "rife_dir"
FileNotFound == "FileNotFoundError: rife_dir"
NoVpResult == [err |-> NoError, ret |-> "nothing", audio_input |-> FALSE,
               rc |-> 0, audio_given |-> FALSE, audio_exists |-> FALSE]

\* no call of get_fps_options is in progress
FpsIdle ==
    /\ current_fps = Unit
    /\ fps_options = <<>>
    /\ fps_pc = "idle"

\* no call of process_video or interpolate has started; temporary
\* directories of other programs may exist
CallIdle ==
    /\ tools = NoTools
    /\ op = "none"
    /\ pc = "idle"
    /\ temp_dir = 0
    /\ pv_result = NoPvResult
    /\ interp_result = NoInterp
    /\ cwd = StartDir
    /\ original_dir = StartDir
    /\ vp_result = NoVpResult

\* get_video_info, InteractiveCLI.run, the overlapping runs, the installer
\* and the uninstaller have not started
ProbeIdle == probe = NoProbe
CliIdle == cli = NoCli
RunsIdle == runs = NoRuns
InstIdle == inst = NoInst
UninstIdle == uninst = NoUninst
AppIdle == ProbeIdle /\ CliIdle /\ RunsIdle /\ InstIdle /\ UninstIdle

\* the environment of the specifications that do not call into core.py
EnvIdle ==
    /\ env = [ffmpeg_found |-> TRUE, rife_dir_exists |-> TRUE,
              models_dir_exists |-> TRUE, script_exists |-> {}]
    /\ tmpdirs = {}

\* ------------------------------------------------------------------------
\* Actions: get_fps_options
\* ------------------------------------------------------------------------

\* utils.py:124-171, one call
call_get_fps_options ==
    /\ fps_pc = "call"
    /\ fps_options' = get_fps_options(current_fps)
    /\ fps_pc' = "done"
    /\ UNCHANGED <<current_fps, env, tools, op, pc, temp_dir, tmpdirs,
                   pv_result, interp_result, cwd, original_dir, vp_result>>
    /\ UNCHANGED app_vars

\* ------------------------------------------------------------------------
\* Actions: process_video
\* ------------------------------------------------------------------------

\* core.py:180-186: mkdtemp makes a directory under a name that does not exist
process_video_start ==
    /\ pc = "idle"
    /\ \E name \in TmpNames \ tmpdirs :
          /\ temp_dir' = name
          /\ tmpdirs' = tmpdirs \cup {name}
    /\ op' = "process_video"
    /\ pc' = "pv_try"
    /\ UNCHANGED <<fps_vars, env, tools, pv_result, interp_result, cwd,
                   original_dir>>
    /\ UNCHANGED <<vp_result, app_vars>>

\* core.py:188-220: the try block, every external tool answering as it will
process_video_body ==
    /\ pc = "pv_try"
    /\ \E t \in ToolBehaviours(env) :
          /\ tools' = t
          /\ pv_result' = process_video_try(env, t)
    /\ pc' = "pv_finally"
    /\ UNCHANGED <<fps_vars, env, op, temp_dir, tmpdirs, interp_result, cwd,
                   original_dir>>
    /\ UNCHANGED <<vp_result, app_vars>>

\* core.py:222-225 as if the removal followed the try block without finally:
\* it is reached only when the block raised nothing
process_video_finally_on_success ==
    /\ pc = "pv_finally"
    /\ tmpdirs' = IF pv_result.err = NoError THEN tmpdirs \ {temp_dir}
                  ELSE tmpdirs
    /\ pc' = IF pv_result.err = NoError THEN "returned" ELSE "raised"
    /\ UNCHANGED <<fps_vars, env, tools, op, temp_dir, pv_result,
                   interp_result, cwd, original_dir>>
    /\ UNCHANGED <<vp_result, app_vars>>

\* core.py:222-225: the finally block removes the directory if it exists,
\* then the call returns or the error goes on to the caller
process_video_finally ==
    /\ pc = "pv_finally"
    /\ tmpdirs' = IF temp_dir \in tmpdirs THEN tmpdirs \ {temp_dir}
                  ELSE tmpdirs
    /\ pc' = IF pv_result.err = NoError THEN "returned" ELSE "raised"
    /\ UNCHANGED <<fps_vars, env, tools, op, temp_dir, pv_result,
                   interp_result, cwd, original_dir>>
    /\ UNCHANGED <<vp_result, app_vars>>

\* ------------------------------------------------------------------------
\* Actions: RIFEInterpolator.interpolate, called on a receiver whose
\* rife_dir and models_dir are set (the method reads nothing else of it).
\* __init__ never returns such a receiver when both directories exist
\* (RIFEInterpolator_init), so these actions describe the method itself,
\* as a subclass or a test double of the constructor would reach it.
\* ------------------------------------------------------------------------

\* core.py:116-130: the output directory is made, the working directory is
\* saved and changed to the RIFE directory (os.chdir raises when it is absent)
interpolate_enter ==
    /\ pc = "idle"
    /\ op' = "interpolate"
    /\ original_dir' = cwd
    /\ IF env.rife_dir_exists
       THEN /\ cwd' = RifeDir
            /\ pc' = "interp_scripts"
            /\ UNCHANGED interp_result
       ELSE /\ cwd' = cwd
            /\ pc' = "interp_finally"
            /\ interp_result' = InterpResult(FileNotFound, 0, <<>>, {})
    /\ UNCHANGED <<fps_vars, env, tools, temp_dir, tmpdirs, pv_result>>
    /\ UNCHANGED <<vp_result, app_vars>>

\* core.py:132-171: the search over the candidate scripts
interpolate_scripts ==
    /\ pc = "interp_scripts"
    /\ \E t \in ToolBehaviours(env) :
          /\ t.extract = 0 /\ t.encode = 0 /\ ~t.audio_exists
          /\ tools' = t
          /\ interp_result' = try_scripts(env, t, 1, <<>>, {})
    /\ pc' = "interp_finally"
    /\ UNCHANGED <<fps_vars, env, op, temp_dir, tmpdirs, pv_result, cwd,
                   original_dir>>
    /\ UNCHANGED <<vp_result, app_vars>>

\* core.py:173-175 as if the directory were restored after the loop and not
\* in a finally block: it is restored only when nothing was raised
interpolate_finally_on_success ==
    /\ pc = "interp_finally"
    /\ cwd' = IF interp_result.err = NoError THEN original_dir ELSE cwd
    /\ pc' = IF interp_result.err = NoError THEN "returned" ELSE "raised"
    /\ UNCHANGED <<fps_vars, env, tools, op, temp_dir, tmpdirs, pv_result,
                   interp_result, original_dir, vp_result, app_vars>>

\* core.py:173-175: the finally block restores the working directory
interpolate_finally ==
    /\ pc = "interp_finally"
    /\ cwd' = original_dir
    /\ pc' = IF interp_result.err = NoError THEN "returned" ELSE "raised"
    /\ UNCHANGED <<fps_vars, env, tools, op, temp_dir, tmpdirs, pv_result,
                   interp_result, original_dir>>
    /\ UNCHANGED <<vp_result, app_vars>>

\* ------------------------------------------------------------------------
\* Actions: the methods of a VideoProcessor called directly (the class is
\* exported by the package); the object exists when ffmpeg was found
\* ------------------------------------------------------------------------

\* the outcome r of a method, kept with the inputs of the call
VpRecord(r, rc, audio_given, audio_exists) ==
    [err |-> r.err, ret |-> r.ret, audio_input |-> r.audio_input, rc |-> rc,
     audio_given |-> audio_given, audio_exists |-> audio_exists]

\* core.py:23-42
call_extract_frames ==
    /\ pc = "idle"
    /\ VideoProcessor_init(env) = NoError
    /\ op' = "extract_frames"
    /\ \E rc \in {0, 1} :
          /\ vp_result' = VpRecord(extract_frames(rc), rc, FALSE, FALSE)
          /\ pc' = IF extract_frames(rc).err = NoError THEN "returned"
                   ELSE "raised"
    /\ UNCHANGED <<fps_vars, env, tools, temp_dir, tmpdirs, pv_result,
                   interp_result, cwd, original_dir, app_vars>>

\* core.py:44-57
call_extract_audio ==
    /\ pc = "idle"
    /\ VideoProcessor_init(env) = NoError
    /\ op' = "extract_audio"
    /\ \E rc \in {0, 1}, exists \in BOOLEAN :
          /\ vp_result' = VpRecord(extract_audio(rc, exists), rc, FALSE, exists)
          /\ pc' = IF extract_audio(rc, exists).err = NoError THEN "returned"
                   ELSE "raised"
    /\ UNCHANGED <<fps_vars, env, tools, temp_dir, tmpdirs, pv_result,
                   interp_result, cwd, original_dir, app_vars>>

\* core.py:59-96
call_encode_video ==
    /\ pc = "idle"
    /\ VideoProcessor_init(env) = NoError
    /\ op' = "encode_video"
    /\ \E rc \in {0, 1}, given \in BOOLEAN, exists \in BOOLEAN :
          /\ vp_result' = VpRecord(encode_video(given, exists, rc), rc, given,
                                   exists)
          /\ pc' = IF encode_video(given, exists, rc).err = NoError
                   THEN "returned" ELSE "raised"
    /\ UNCHANGED <<fps_vars, env, tools, temp_dir, tmpdirs, pv_result,
                   interp_result, cwd, original_dir, app_vars>>

\* ------------------------------------------------------------------------
\* Specifications
\* ------------------------------------------------------------------------

\* one call of process_video or of interpolate, in any environment
Init ==
    /\ FpsIdle
    /\ CallIdle
    /\ AppIdle
    /\ env \in Environments
    /\ tmpdirs \in {d \in SUBSET TmpNames : d # TmpNames}

Next ==
    \/ process_video_start
    \/ process_video_body
    \/ process_video_finally
    \/ interpolate_enter
    \/ interpolate_scripts
    \/ interpolate_finally
    \/ call_extract_frames
    \/ call_extract_audio
    \/ call_encode_video

Spec == Init /\ [][Next]_vars

\* one call of get_fps_options, for every rate of the grid
InitFps ==
    /\ current_fps \in 1 .. MaxCurrentFps * Unit
    /\ fps_options = <<>>
    /\ fps_pc = "call"
    /\ CallIdle
    /\ AppIdle
    /\ EnvIdle

NextFps == call_get_fps_options

SpecFps == InitFps /\ [][NextFps]_vars

\* ------------------------------------------------------------------------
\* get_video_info: one call for every output of ffprobe within the bounds
\* ------------------------------------------------------------------------

\* utils.py:37-98, one call
call_get_video_info ==
    /\ probe.pc = "idle"
    /\ LET r == get_video_info(probe.ffprobe_found, probe.returncode,
                               probe.parseable, probe.streams)
       IN probe' = [probe EXCEPT
                       !.pc = IF r.err = NoError THEN "returned" ELSE "raised",
                       !.err = r.err,
                       !.info = r.info]
    /\ UNCHANGED <<fps_vars, call_vars, vp_result, cli, runs, inst, uninst>>

InitProbe ==
    /\ FpsIdle
    /\ CallIdle
    /\ EnvIdle
    /\ CliIdle /\ RunsIdle /\ InstIdle /\ UninstIdle
    /\ \E f \in BOOLEAN, rc \in {0, 1}, ok \in BOOLEAN,
          ss \in StreamLists(MaxStreams) :
           probe = [NoProbe EXCEPT !.ffprobe_found = f, !.returncode = rc,
                                   !.parseable = ok, !.streams = ss]

NextProbe == call_get_video_info

SpecProbe == InitProbe /\ [][NextProbe]_vars

\* ------------------------------------------------------------------------
\* InteractiveCLI.run: one run of the command-line interface
\* ------------------------------------------------------------------------

\* the run ends with sys.exit(status) or with an exception leaving run
CliExit(status) == [cli EXCEPT !.pc = "done", !.exit = status]

\* interface.py:161-162
cli_check_requirements ==
    /\ cli.pc = "start"
    /\ cli' = IF check_requirements(env) THEN [cli EXCEPT !.pc = "videos"]
              ELSE CliExit("1")
    /\ UNCHANGED <<fps_vars, call_vars, vp_result, probe, runs, inst, uninst>>

\* interface.py:164-191: no video file ends the run with status 1, a
\* cancelled selection with status 0
cli_select_video ==
    /\ cli.pc = "videos"
    /\ \E found \in BOOLEAN, chosen \in BOOLEAN :
          cli' = IF ~found THEN CliExit("1")
                 ELSE IF ~chosen THEN CliExit("0")
                 ELSE [cli EXCEPT !.pc = "probe"]
    /\ UNCHANGED <<fps_vars, call_vars, vp_result, probe, runs, inst, uninst>>

\* interface.py:195-197 as if the call were wrapped in a try block that
\* falls back to the default descriptor
cli_get_video_info_caught ==
    /\ cli.pc = "probe"
    /\ \E rc \in {0, 1}, ok \in BOOLEAN, ss \in CliStreamLists :
          LET r == get_video_info(TRUE, rc, ok, ss)
          IN  /\ probe' = [pc |-> IF r.err = NoError THEN "returned"
                                  ELSE "raised",
                           ffprobe_found |-> TRUE, returncode |-> rc,
                           parseable |-> ok, streams |-> ss,
                           err |-> r.err,
                           info |-> IF r.err = NoError THEN r.info
                                    ELSE [NoInfo EXCEPT !.fps = DefaultRate]]
              /\ cli' = [cli EXCEPT
                            !.events = Append(@, "get_video_info"),
                            !.pc = "options"]
    /\ UNCHANGED <<fps_vars, call_vars, vp_result, runs, inst, uninst>>

\* interface.py:195-197: the call is outside every try block, so an error
\* of get_video_info leaves run; ffprobe was found (check_requirements)
cli_get_video_info ==
    /\ cli.pc = "probe"
    /\ \E rc \in {0, 1}, ok \in BOOLEAN, ss \in CliStreamLists :
          LET r == get_video_info(TRUE, rc, ok, ss)
          IN  /\ probe' = [pc |-> IF r.err = NoError THEN "returned"
                                  ELSE "raised",
                           ffprobe_found |-> TRUE, returncode |-> rc,
                           parseable |-> ok, streams |-> ss,
                           err |-> r.err, info |-> r.info]
              /\ cli' = [cli EXCEPT
                            !.events = Append(@, "get_video_info"),
                            !.pc = IF r.err = NoError THEN "options"
                                   ELSE "done",
                            !.exit = IF r.err = NoError THEN @
                                     ELSE CliException]
    /\ UNCHANGED <<fps_vars, call_vars, vp_result, runs, inst, uninst>>

\* interface.py:203-207: get_fps_options divides by the rate (utils.py:131),
\* so a rate of 0 raises ZeroDivisionError, which leaves run; an empty list
\* ends the run with status 0
cli_get_fps_options ==
    /\ cli.pc = "options"
    /\ current_fps' = GridRate(probe.info.fps)
    /\ fps_options' = IF current_fps' = 0 THEN << >>
                      ELSE get_fps_options(current_fps')
    /\ fps_pc' = "done"
    /\ cli' = [cli EXCEPT
                  !.events = Append(@, "get_fps_options"),
                  !.pc = IF fps_options' = << >> THEN "done" ELSE "choose",
                  !.exit = IF current_fps' = 0 THEN CliException
                           ELSE IF fps_options' = << >> THEN "0" ELSE @]
    /\ UNCHANGED <<call_vars, vp_result, probe, runs, inst, uninst>>

\* interface.py:212-301: the target is chosen (0: the prompt is cancelled),
\* then the start is confirmed or not
cli_select_options ==
    /\ cli.pc = "choose"
    /\ \E choice \in 0 .. Len(fps_options), confirmed \in BOOLEAN :
          cli' = IF choice = 0 \/ ~confirmed THEN CliExit("0")
                 ELSE [cli EXCEPT !.pc = "process", !.selected = choice]
    /\ UNCHANGED <<fps_vars, call_vars, vp_result, probe, runs, inst, uninst>>

\* interface.py:320-362 as if the scale were read from the first option of
\* the list and not from the selected one
cli_process_video_first_scale ==
    /\ cli.pc = "process"
    /\ \E name \in TmpNames \ tmpdirs, t \in ToolBehaviours(env) :
          /\ temp_dir' = name
          /\ pv_result' = process_video_try(env, t)
    /\ op' = "process_video"
    /\ pc' = IF pv_result'.err = NoError THEN "returned" ELSE "raised"
    /\ cli' = [cli EXCEPT
                  !.events = Append(@, "process_video"),
                  !.temp_dirs_made = @ + 1,
                  !.scale = fps_options[1].scale,
                  !.target_fps = fps_options[cli.selected].actual,
                  !.pc = "done",
                  !.exit = IF pv_result'.err = NoError /\ pv_result'.ret
                           THEN "0" ELSE "1"]
    /\ UNCHANGED <<fps_vars, env, tools, tmpdirs, interp_result, cwd,
                   original_dir, vp_result, probe, runs, inst, uninst>>

\* interface.py:320-362: the whole call of process_video (core.py:178-225:
\* mkdtemp, the try block, the finally block), every exception caught at
\* line 329; the run ends with status 1 unless the call returned success.
\* Lines 321-328 give it selected_option['scale'] and selected_option['actual'].
cli_process_video ==
    /\ cli.pc = "process"
    /\ \E name \in TmpNames \ tmpdirs, t \in ToolBehaviours(env) :
          /\ temp_dir' = name
          /\ pv_result' = process_video_try(env, t)
    /\ op' = "process_video"
    /\ pc' = IF pv_result'.err = NoError THEN "returned" ELSE "raised"
    /\ cli' = [cli EXCEPT
                  !.events = Append(@, "process_video"),
                  !.temp_dirs_made = @ + 1,
                  !.scale = fps_options[cli.selected].scale,
                  !.target_fps = fps_options[cli.selected].actual,
                  !.pc = "done",
                  !.exit = IF pv_result'.err = NoError /\ pv_result'.ret
                           THEN "0" ELSE "1"]
    /\ UNCHANGED <<fps_vars, env, tools, tmpdirs, interp_result, cwd,
                   original_dir, vp_result, probe, runs, inst, uninst>>

InitCli ==
    /\ FpsIdle
    /\ CallIdle
    /\ env \in Environments
    /\ tmpdirs = {}
    /\ cli = [NoCli EXCEPT !.pc = "start"]
    /\ ProbeIdle /\ RunsIdle /\ InstIdle /\ UninstIdle

NextCli ==
    \/ cli_check_requirements
    \/ cli_select_video
    \/ cli_get_video_info
    \/ cli_get_fps_options
    \/ cli_select_options
    \/ cli_process_video

SpecCli == InitCli /\ [][NextCli]_vars

\* ------------------------------------------------------------------------
\* process_video: MaxRuns calls overlapping in time, on the same input and
\* in the same second (the prefix of the directory name is the same)
\* ------------------------------------------------------------------------

\* core.py:183-186 as if the directory were named by timestamp and stem
\* alone (mkdir with exist_ok): the name may be one that is in use
run_mkdir_by_name(i) ==
    /\ runs.of[i].pc = "idle"
    /\ \E name \in TmpNames :
          /\ tmpdirs' = tmpdirs \cup {name}
          /\ runs' = [runs EXCEPT !.of[i].pc = "try",
                                  !.of[i].temp_dir = name]
    /\ UNCHANGED <<fps_vars, env, tools, op, pc, temp_dir, pv_result,
                   interp_result, cwd, original_dir, vp_result, probe, cli,
                   inst, uninst>>

\* core.py:183-186: mkdtemp makes a directory under a name that does not
\* exist, atomically
run_mkdtemp(i) ==
    /\ runs.of[i].pc = "idle"
    /\ \E name \in TmpNames \ tmpdirs :
          /\ tmpdirs' = tmpdirs \cup {name}
          /\ runs' = [runs EXCEPT !.of[i].pc = "try",
                                  !.of[i].temp_dir = name]
    /\ UNCHANGED <<fps_vars, env, tools, op, pc, temp_dir, pv_result,
                   interp_result, cwd, original_dir, vp_result, probe, cli,
                   inst, uninst>>

\* core.py:188-220: the try block of call i; what its stages write goes
\* under its own temp_dir
run_try(i) ==
    /\ runs.of[i].pc = "try"
    /\ \E t \in ToolBehaviours(env) :
          LET r == process_video_try(env, t)
              w == written_by(r.stages, t)
          IN  runs' = [runs EXCEPT
                          !.of[i].pc = "finally",
                          !.of[i].err = r.err,
                          !.of[i].wrote = w,
                          !.files = @ \cup {<<runs.of[i].temp_dir, f>> :
                                               f \in w}]
    /\ UNCHANGED <<fps_vars, call_vars, vp_result, probe, cli, inst, uninst>>

\* core.py:222-225: rmtree of the call's own temp_dir if it exists
run_finally(i) ==
    /\ runs.of[i].pc = "finally"
    /\ tmpdirs' = tmpdirs \ {runs.of[i].temp_dir}
    /\ runs' = [runs EXCEPT
                   !.of[i].pc = "done",
                   !.files = {df \in @ : df[1] # runs.of[i].temp_dir}]
    /\ UNCHANGED <<fps_vars, env, tools, op, pc, temp_dir, pv_result,
                   interp_result, cwd, original_dir, vp_result, probe, cli,
                   inst, uninst>>

\* the calls share one environment, with at most one candidate script
InitTwo ==
    /\ FpsIdle
    /\ CallIdle
    /\ env \in {e \in Environments : Cardinality(e.script_exists) <= 1}
    /\ tmpdirs = {}
    /\ runs = [of |-> [i \in 1 .. MaxRuns |-> NoRun], files |-> {}]
    /\ ProbeIdle /\ CliIdle /\ InstIdle /\ UninstIdle

NextTwo ==
    \E i \in 1 .. MaxRuns :
        \/ run_mkdtemp(i)
        \/ run_try(i)
        \/ run_finally(i)

SpecTwo == InitTwo /\ [][NextTwo]_vars

\* ------------------------------------------------------------------------
\* RIFEInterpolator.interpolate: MaxRuns calls overlapping in time in one
\* process (threads); the working directory belongs to the process
\* ------------------------------------------------------------------------

\* core.py:116-126: the output directory is made, the exponent computed and
\* the working directory of the process read
icall_getcwd(i) ==
    /\ runs.of[i].pc = "idle"
    /\ \E scale \in Scales :
          runs' = [runs EXCEPT !.of[i].pc = "chdir",
                               !.of[i].scale = scale,
                               !.of[i].exp = exp_value(scale),
                               !.of[i].original_dir = cwd]
    /\ cwd' = cwd
    /\ UNCHANGED <<fps_vars, env, tools, op, pc, temp_dir, tmpdirs, pv_result,
                   interp_result, original_dir, vp_result, probe, cli, inst,
                   uninst>>

\* core.py:128-130: os.chdir(self.rife_dir), which raises when it is absent
icall_chdir(i) ==
    /\ runs.of[i].pc = "chdir"
    /\ IF env.rife_dir_exists
       THEN /\ cwd' = RifeDir
            /\ runs' = [runs EXCEPT !.of[i].pc = "scripts"]
       ELSE /\ cwd' = cwd
            /\ runs' = [runs EXCEPT !.of[i].pc = "finally",
                                    !.of[i].err = FileNotFound]
    /\ UNCHANGED <<fps_vars, env, tools, op, pc, temp_dir, tmpdirs, pv_result,
                   interp_result, original_dir, vp_result, probe, cli, inst,
                   uninst>>

\* core.py:132-171: the search over the candidate scripts, in whatever
\* working directory the process has at that time
icall_scripts(i) ==
    /\ runs.of[i].pc = "scripts"
    /\ \E t \in ToolBehaviours(env) :
          LET r == try_scripts(env, t, 1, << >>, {})
          IN  runs' = [runs EXCEPT !.of[i].pc = "finally",
                                   !.of[i].err = r.err,
                                   !.of[i].invocations = Len(r.invs),
                                   !.of[i].loop_cwd = cwd]
    /\ cwd' = cwd
    /\ UNCHANGED <<fps_vars, env, tools, op, pc, temp_dir, tmpdirs, pv_result,
                   interp_result, original_dir, vp_result, probe, cli, inst,
                   uninst>>

\* core.py:173-175: os.chdir(original_dir)
icall_finally(i) ==
    /\ runs.of[i].pc = "finally"
    /\ cwd' = runs.of[i].original_dir
    /\ runs' = [runs EXCEPT !.of[i].pc = "done"]
    /\ UNCHANGED <<fps_vars, env, tools, op, pc, temp_dir, tmpdirs, pv_result,
                   interp_result, original_dir, vp_result, probe, cli, inst,
                   uninst>>

\* the calls share one process and one environment, with at most one
\* candidate script
InitTwoInterp ==
    /\ FpsIdle
    /\ CallIdle
    /\ env \in {e \in Environments : Cardinality(e.script_exists) <= 1}
    /\ tmpdirs = {}
    /\ runs = [of |-> [i \in 1 .. MaxRuns |-> NoInterpCall], files |-> {}]
    /\ ProbeIdle /\ CliIdle /\ InstIdle /\ UninstIdle

NextTwoInterp ==
    \E i \in 1 .. MaxRuns :
        \/ icall_getcwd(i)
        \/ icall_chdir(i)
        \/ icall_scripts(i)
        \/ icall_finally(i)

SpecTwoInterp == InitTwoInterp /\ [][NextTwoInterp]_vars

\* ------------------------------------------------------------------------
\* install.py: one run of the installer
\* ------------------------------------------------------------------------

\* install.py:442-450: check_python_version and check_system end the run
\* with status 1; otherwise the installation directory is made
install_preflight ==
    /\ inst.pc = "start"
    /\ \E supported \in BOOLEAN :
          inst' = IF ~supported
                  THEN [inst EXCEPT !.pc = "done", !.exit = "1"]
                  ELSE [inst EXCEPT !.pc = steps[1],
                                    !.files = @ \cup {"INSTALL_DIR"}]
    /\ UNCHANGED <<fps_vars, call_vars, vp_result, probe, cli, runs, uninst>>

\* install.py:180-207
install_setup_virtual_environment ==
    /\ inst.pc = "setup_virtual_environment"
    /\ \E created \in BOOLEAN :
          inst' = IF "VENV_DIR" \in inst.files
                  THEN after_step(inst, inst.pc, TRUE, inst.files)
                  ELSE IF ~created
                  THEN after_step(inst, inst.pc, FALSE, inst.files)
                  ELSE after_step(inst, inst.pc, TRUE,
                                  inst.files \cup {"VENV_DIR"})
    /\ UNCHANGED <<fps_vars, call_vars, vp_result, probe, cli, runs, uninst>>

\* install.py:209-237: a package that fails to install is only warned about
install_install_python_packages ==
    /\ inst.pc = "install_python_packages"
    /\ inst' = after_step(inst, inst.pc, TRUE, inst.files)
    /\ UNCHANGED <<fps_vars, call_vars, vp_result, probe, cli, runs, uninst>>

\* install.py:239-254
install_setup_rife ==
    /\ inst.pc = "setup_rife"
    /\ \E cloned \in BOOLEAN :
          inst' = IF "RIFE_DIR" \in inst.files
                  THEN after_step(inst, inst.pc, TRUE, inst.files)
                  ELSE IF ~cloned
                  THEN after_step(inst, inst.pc, FALSE, inst.files)
                  ELSE after_step(inst, inst.pc, TRUE,
                                  inst.files \cup {"RIFE_DIR"})
    /\ UNCHANGED <<fps_vars, call_vars, vp_result, probe, cli, runs, uninst>>

\* install.py:256-290: the models directory is made; every path returns True
install_download_models ==
    /\ inst.pc = "download_models"
    /\ inst' = after_step(inst, inst.pc, TRUE,
                          inst.files \cup {"MODELS_DIR"})
    /\ UNCHANGED <<fps_vars, call_vars, vp_result, probe, cli, runs, uninst>>

\* install.py:292-338: True when ffmpeg is on the PATH, installed locally or
\* installed by the package manager; otherwise the ffmpeg directory is made
\* and the step returns False
install_setup_ffmpeg ==
    /\ inst.pc = "setup_ffmpeg"
    /\ \E available \in BOOLEAN :
          inst' = IF available
                  THEN after_step(inst, inst.pc, TRUE, inst.files)
                  ELSE after_step(inst, inst.pc, FALSE,
                                  inst.files \cup {"FFMPEG_DIR"})
    /\ UNCHANGED <<fps_vars, call_vars, vp_result, probe, cli, runs, uninst>>

\* install.py:385-414: cli.py is written from the file ufps_old of the
\* current directory; without that file the step returns False
install_copy_main_script ==
    /\ inst.pc = "copy_main_script"
    /\ inst' = IF ~inst.ufps_old
               THEN after_step(inst, inst.pc, FALSE, inst.files)
               ELSE after_step(inst, inst.pc, TRUE,
                               inst.files \cup {"cli.py"})
    /\ UNCHANGED <<fps_vars, call_vars, vp_result, probe, cli, runs, uninst>>

\* install.py:340-383
install_create_wrapper_script ==
    /\ inst.pc = "create_wrapper_script"
    /\ inst' = after_step(inst, inst.pc, TRUE, inst.files \cup {"wrapper"})
    /\ UNCHANGED <<fps_vars, call_vars, vp_result, probe, cli, runs, uninst>>

\* install.py:416-430: the file is written and the function ends without a
\* return statement, so the loop reads its result None as a failure
install_save_config ==
    /\ inst.pc = "save_config"
    /\ inst' = after_step(inst, inst.pc, FALSE,
                          inst.files \cup {"config.json"})
    /\ UNCHANGED <<fps_vars, call_vars, vp_result, probe, cli, runs, uninst>>

\* install.py:472-497: main prints the outcome and returns whatever failed
\* is, so the process ends with status 0
install_finish ==
    /\ inst.pc = "finish"
    /\ inst' = [inst EXCEPT !.pc = "done", !.exit = "0"]
    /\ UNCHANGED <<fps_vars, call_vars, vp_result, probe, cli, runs, uninst>>

\* a fresh machine or one with parts of an earlier installation, with or
\* without the file ufps_old in the current directory
InitInstall ==
    /\ FpsIdle
    /\ CallIdle
    /\ EnvIdle
    /\ ProbeIdle /\ CliIdle /\ RunsIdle /\ UninstIdle
    /\ \E old \in BOOLEAN,
          present \in SUBSET {"INSTALL_DIR", "VENV_DIR", "RIFE_DIR",
                              "cli.py", "wrapper"} :
           /\ present \ {"wrapper"} # {} => "INSTALL_DIR" \in present
           /\ inst = [NoInst EXCEPT !.pc = "start", !.ufps_old = old,
                                    !.files = present]

NextInstall ==
    \/ install_preflight
    \/ install_setup_virtual_environment
    \/ install_install_python_packages
    \/ install_setup_rife
    \/ install_download_models
    \/ install_setup_ffmpeg
    \/ install_copy_main_script
    \/ install_create_wrapper_script
    \/ install_save_config
    \/ install_finish

SpecInstall == InitInstall /\ [][NextInstall]_vars

\* ------------------------------------------------------------------------
\* uninstall.py: one run of the uninstaller
\* ------------------------------------------------------------------------

\* uninstall.py:96-100 with 39-63: the prompt; an interrupted prompt ends
\* the run with status 1 (lines 136-138), an answer that is not accepted
\* with status 0
uninstall_confirm_uninstall ==
    /\ uninst.pc = "start"
    /\ \E interrupted \in BOOLEAN, r \in Responses(MaxResponseLen) :
          uninst' = IF interrupted
                    THEN [uninst EXCEPT !.pc = "done", !.exit = "1"]
                    ELSE IF ~confirm_uninstall(r)
                    THEN [uninst EXCEPT !.pc = "done", !.exit = "0",
                                        !.response = r]
                    ELSE [uninst EXCEPT !.pc = "remove", !.response = r,
                                        !.confirmed = TRUE]
    /\ UNCHANGED <<fps_vars, call_vars, vp_result, probe, cli, runs, inst>>

\* uninstall.py:105 with 65-94: every failure of rmtree or unlink is caught
\* and listed
uninstall_remove_installation ==
    /\ uninst.pc = "remove"
    /\ \E rmtree_ok \in BOOLEAN, unlink_ok \in BOOLEAN :
          uninst' = [uninst EXCEPT
                        !.pc = "report",
                        !.files = remove_installation(@, rmtree_ok,
                                                      unlink_ok),
                        !.failed = failed_items(uninst.files, rmtree_ok,
                                                unlink_ok)]
    /\ UNCHANGED <<fps_vars, call_vars, vp_result, probe, cli, runs, inst>>

\* uninstall.py:107-131: the outcome is printed and main returns, so the
\* process ends with status 0 also when failed_items is not empty
uninstall_report ==
    /\ uninst.pc = "report"
    /\ uninst' = [uninst EXCEPT !.pc = "done", !.exit = "0"]
    /\ UNCHANGED <<fps_vars, call_vars, vp_result, probe, cli, runs, inst>>

\* any state of the installation directory, the wrapper and the bin
\* directory before the run
InitUninstall ==
    /\ FpsIdle
    /\ CallIdle
    /\ EnvIdle
    /\ ProbeIdle /\ CliIdle /\ RunsIdle /\ InstIdle
    /\ \E present \in SUBSET {"INSTALL_DIR", "wrapper", "BIN_DIR",
                             "other_in_bin"} :
           /\ present \cap {"wrapper", "other_in_bin"} # {}
                 => "BIN_DIR" \in present
           /\ uninst = [NoUninst EXCEPT !.pc = "start", !.files = present,
                                        !.before = present]

NextUninstall ==
    \/ uninstall_confirm_uninstall
    \/ uninstall_remove_installation
    \/ uninstall_report

SpecUninstall == InitUninstall /\ [][NextUninstall]_vars

\* ------------------------------------------------------------------------
\* Properties of process_video and interpolate (specification Spec)
\* ------------------------------------------------------------------------

Finished == pc \in {"returned", "raised"}

\* C1: once process_video has returned or raised, whichever step failed or
\* none, the temporary directory it created at its start no longer exists.
C1_TempDirRemoved ==
    (op = "process_video" /\ Finished) =>
        temp_dir \in TmpNames /\ temp_dir \notin tmpdirs

\* C1 witness: a run that raised (its processors could not be constructed)
\* after it had made its directory, and the directory is gone.
C1_Witness ==
    /\ op = "process_video"
    /\ pc = "raised"
    /\ pv_result.err \in {FFmpegNotFound, RIFENotFound, ModelsNotFound,
                          SysNameError}
    /\ temp_dir \in TmpNames
    /\ temp_dir \notin tmpdirs

StageError(stage) ==
    CASE stage = "extract_frames" -> {ExtractionFailed}
      [] stage = "interpolate" -> {InterpolationFailed}
      [] stage = "encode_video" -> {EncodingFailed}
      [] OTHER -> {}

StageOrder == <<"extract_frames", "interpolate", "extract_audio", "encode_video">>

IsPrefix(s, t) == Len(s) <= Len(t) /\ \A i \in 1 .. Len(s) : s[i] = t[i]

\* C2: when frame extraction, interpolation or encoding raises its error,
\* process_video starts no later stage and no stage twice, does not return
\* success, and the caller receives the error of the failing stage.
\* (No run of the model reaches a stage: RIFEInterpolator_init raises first.)
C2_AbortOnStageError ==
    (op = "process_video" /\ Finished /\ pv_result.stages # <<>>) =>
        LET last == pv_result.stages[Len(pv_result.stages)]
        IN  (pv_result.err # NoError) =>
               /\ pc = "raised"
               /\ pv_result.ret = FALSE
               /\ IsPrefix(pv_result.stages, StageOrder)
               /\ pv_result.err \in StageError(last)

\* C3: the stages start in the order extract frames, interpolate, extract
\* audio, encode, each after the one before it succeeded, and a run returns
\* only after encoding succeeded.
\* (No run of the model reaches a stage: RIFEInterpolator_init raises first.)
C3_StageOrder ==
    (op = "process_video" /\ Finished) =>
        /\ IsPrefix(pv_result.stages, StageOrder)
        /\ pc = "returned" =>
              /\ pv_result.stages = StageOrder
              /\ tools.extract = 0
              /\ tools.encode = 0

\* an invocation exits zero and the output directory holds a frame after it
FirstCandidateFails(t) ==
    /\ ~(t.interp[<<1, WithModelDir>>].returncode = 0
         /\ t.interp[<<1, WithModelDir>>].wrote)
    /\ ~(t.interp[<<1, WithoutModelDir>>].returncode = 0
         /\ (t.interp[<<1, WithModelDir>>].wrote
             \/ t.interp[<<1, WithoutModelDir>>].wrote))

SecondCandidateSucceeds(t) ==
    \E v \in Variants :
        t.interp[<<2, v>>].returncode = 0 /\ t.interp[<<2, v>>].wrote

\* C4: with ffmpeg found and the RIFE and models directories present, if the
\* first candidate script fails in both variants and the second succeeds, and
\* extraction and encoding succeed, process_video returns success from the
\* second candidate's output and raises nothing.
C4_FallbackSuccess ==
    (/\ op = "process_video"
     /\ Finished
     /\ env.ffmpeg_found
     /\ env.rife_dir_exists
     /\ env.models_dir_exists
     /\ {1, 2} \subseteq env.script_exists
     /\ tools.extract = 0
     /\ tools.encode = 0
     /\ FirstCandidateFails(tools)
     /\ SecondCandidateSucceeds(tools))
    => /\ pc = "returned"
       /\ pv_result.err = NoError
       /\ pv_result.ret = TRUE
       /\ pv_result.interp.invs # <<>>
       /\ pv_result.interp.invs[Len(pv_result.interp.invs)][1] = 2

\* some invocation the call made exited zero with a frame in the output
\* directory
SomeInvocationSucceeded(r, t) ==
    \E k \in 1 .. Len(r.invs) :
        /\ t.interp[r.invs[k]].returncode = 0
        /\ \E j \in 1 .. k : t.interp[r.invs[j]].wrote

\* C5: interpolate raises its interpolation error exactly when no invocation
\* it made exited zero with an output file present (also when no candidate
\* script exists); otherwise it returns the number of output files, at least 1.
C5_InterpolateContract ==
    (op = "interpolate" /\ Finished /\ env.rife_dir_exists) =>
        /\ (interp_result.err = InterpolationFailed)
              <=> ~SomeInvocationSucceeded(interp_result, tools)
        /\ interp_result.err # InterpolationFailed =>
              /\ pc = "returned"
              /\ interp_result.err = NoError
              /\ interp_result.ret = Cardinality(interp_result.files)
              /\ interp_result.ret >= 1

\* C11: with a progress callback the percentages reported in one run are a
\* prefix of 0, 25, 50, 75, 100, and 100 is reported exactly when the run
\* returns success.
\* (No run of the model reports anything: RIFEInterpolator_init raises first.)
C11_ProgressPrefix ==
    (op = "process_video" /\ Finished) =>
        /\ IsPrefix(pv_result.progress, <<0, 25, 50, 75, 100>>)
        /\ (\E i \in 1 .. Len(pv_result.progress) : pv_result.progress[i] = 100)
              <=> pc = "returned"

\* the first candidate script that exists succeeds at its first invocation
InterpolationWouldSucceed(e, t) ==
    \E i \in e.script_exists :
        /\ \A j \in e.script_exists : i <= j
        /\ t.interp[<<i, WithModelDir>>].returncode = 0
        /\ t.interp[<<i, WithModelDir>>].wrote

\* C12: extract_audio never raises whatever the exit status of the tool and
\* returns the output path exactly when the audio file exists afterwards
\* (none otherwise); and when it returns none, process_video still goes on to
\* encoding and completes when the other stages succeed.
C12_AudioOptional ==
    /\ (op = "extract_audio" /\ Finished) =>
          /\ pc = "returned"
          /\ vp_result.err = NoError
          /\ (vp_result.ret = "output_path") <=> vp_result.audio_exists
          /\ (vp_result.ret = "None") <=> ~vp_result.audio_exists
    /\ (/\ op = "process_video"
        /\ Finished
        /\ env.ffmpeg_found
        /\ env.rife_dir_exists
        /\ env.models_dir_exists
        /\ tools.extract = 0
        /\ InterpolationWouldSucceed(env, tools)
        /\ ~tools.audio_exists
        /\ tools.encode = 0)
       => /\ pc = "returned"
          /\ pv_result.ret = TRUE
          /\ pv_result.stages = StageOrder

\* C13: while interpolate runs its scripts the working directory is the RIFE
\* directory, and after the call has returned or raised the working directory
\* is again the one in effect when the call started.
C13_WorkingDirectory ==
    /\ (op = "interpolate" /\ pc = "interp_scripts") => cwd = RifeDir
    /\ (op = "interpolate" /\ Finished) => cwd = StartDir

\* C13 witness: a call that changed to the RIFE directory, raised from the
\* search over the scripts, and left the working directory as it found it.
C13_Witness ==
    /\ op = "interpolate"
    /\ pc = "raised"
    /\ env.rife_dir_exists
    /\ interp_result.err \in {SysNameError, InterpolationFailed}
    /\ cwd = StartDir

\* every script invocation of the call exits non-zero
EveryInvocationFails(t) ==
    \A k \in DOMAIN t.interp : t.interp[k].returncode # 0

\* C18: for each of the three fatal stage failures (frame extraction,
\* interpolation, encoding) the error the caller receives names the stage
\* that failed and carries the stderr of the tool invocation that failed.
C18_ErrorNamesStage ==
    /\ (op \in {"extract_frames", "encode_video"} /\ pc = "raised") =>
          /\ error_stage(vp_result.err) = op
          /\ error_has_stderr(vp_result.err)
    /\ (/\ op = "interpolate"
        /\ pc = "raised"
        /\ env.script_exists # {}
        /\ EveryInvocationFails(tools)) =>
          /\ error_stage(interp_result.err) = "interpolate"
          /\ error_has_stderr(interp_result.err)
    /\ (op = "process_video" /\ pc = "raised" /\ pv_result.stages # <<>>) =>
          /\ error_stage(pv_result.err)
                = pv_result.stages[Len(pv_result.stages)]
          /\ error_has_stderr(pv_result.err)

\* the place of an invocation in the fixed order of core.py:133-162
Place(inv) == 2 * (inv[1] - 1) + inv[2]

\* an invocation that exited zero and wrote frames
Succeeded(t, inv) == t.interp[inv].returncode = 0 /\ t.interp[inv].wrote

\* C21: interpolate makes its invocations in the fixed order (each script
\* first with the model directory, then without), only for scripts that
\* exist, each at most once (so at most 6), the variant without the model
\* directory only after the variant with it failed, and none after an
\* invocation that succeeded.
\* (No call of the model makes an invocation: building the command raises.)
C21_InvocationOrder ==
    (op = "interpolate" /\ Finished) =>
        LET invs == interp_result.invs
        IN  /\ Len(invs) <= 2 * Len(scripts)
            /\ \A k \in DOMAIN invs : invs[k][1] \in env.script_exists
            /\ \A k, l \in DOMAIN invs :
                   k < l => Place(invs[k]) < Place(invs[l])
            /\ \A k \in DOMAIN invs :
                   invs[k][2] = WithoutModelDir =>
                       /\ k > 1
                       /\ invs[k - 1] = <<invs[k][1], WithModelDir>>
            /\ \A k \in DOMAIN invs :
                   k < Len(invs) => ~Succeeded(tools, invs[k])

\* C23: whenever interpolate returns a frame count, the frames it counted
\* were all written by its last invocation, the one that exited zero.
\* (No call of the model returns: building the command raises.)
C23_CountedFramesAreFresh ==
    (op = "interpolate" /\ pc = "returned") =>
        /\ interp_result.invs # << >>
        /\ interp_result.files
              \subseteq {interp_result.invs[Len(interp_result.invs)]}

\* C24: constructing RIFEInterpolator succeeds when the RIFE directory and
\* the models directory both exist and raises when one is missing; so with
\* ffmpeg found and both directories present process_video reports
\* progress 0 before any failure.
C24_ConstructionSucceeds ==
    (op = "process_video" /\ Finished) =>
        /\ (env.rife_dir_exists /\ env.models_dir_exists)
              <=> RIFEInterpolator_init(env) = NoError
        /\ (env.ffmpeg_found /\ env.rife_dir_exists /\ env.models_dir_exists)
              => /\ pv_result.progress # << >>
                 /\ pv_result.progress[1] = 0

\* C27: encode_video gives the audio file to ffmpeg as a second input
\* exactly when an audio path was supplied and the file exists; it raises its
\* encoding error exactly when ffmpeg exits non-zero and otherwise returns the
\* output path; in both commands the frames are read under the name pattern
\* extract_frames writes.
C27_EncodeContract ==
    (op = "encode_video" /\ Finished) =>
        /\ vp_result.audio_input
              <=> (vp_result.audio_given /\ vp_result.audio_exists)
        /\ pc = "raised" <=> vp_result.rc # 0
        /\ pc = "raised" => vp_result.err = EncodingFailed
        /\ pc = "returned" => vp_result.ret = "output_path"
        /\ encode_video_pattern(vp_result.audio_input)
              = extract_frames_pattern

\* C27 witness: a call given an audio path whose file does not exist, which
\* encoded the video alone and returned the output path.
C27_Witness ==
    /\ op = "encode_video"
    /\ pc = "returned"
    /\ vp_result.audio_given
    /\ ~vp_result.audio_exists
    /\ ~vp_result.audio_input
    /\ vp_result.ret = "output_path"

\* ------------------------------------------------------------------------
\* Properties of get_video_info (specification SpecProbe)
\* ------------------------------------------------------------------------

\* the stream the returned descriptor was built from
ProbedStream == probe.streams[probe.info.video_stream]

\* C14: every descriptor get_video_info returns has a frame rate above 0;
\* "num/0" gives 30.0 and a missing r_frame_rate gives 30.0.
C14_FrameRatePositive ==
    probe.pc = "returned" =>
        /\ probe.info.fps.num * probe.info.fps.den > 0
        /\ ProbedStream.r_frame_rate.form = "missing"
              => probe.info.fps = Rate(30, 1)
        /\ (/\ ProbedStream.r_frame_rate.form = "ratio"
            /\ ProbedStream.r_frame_rate.den = 0)
              => probe.info.fps = Rate(30, 1)

HasStream(kind) ==
    \E i \in DOMAIN probe.streams : probe.streams[i].codec_type = kind

CallsOf(f) ==
    Cardinality({i \in DOMAIN cli.events : cli.events[i] = f})

\* C16: when probing the selected video fails the pipeline never starts:
\* process_video is not called, no temporary directory is made, no stage
\* (extraction, interpolation, encoding) runs, and the probe is made once.
C16_ProbeFailureStopsRun ==
    probe.pc = "raised" =>
        /\ cli.pc = "done"
        /\ CallsOf("process_video") = 0
        /\ CallsOf("get_fps_options") = 0
        /\ CallsOf("get_video_info") = 1
        /\ cli.temp_dirs_made = 0
        /\ tmpdirs = {}
        /\ op = "none"
        /\ pv_result = NoPvResult

\* C16 witness: a run that passed the requirements, selected a video, and
\* ended with the error of get_video_info.
C16_Witness ==
    /\ probe.pc = "raised"
    /\ cli.pc = "done"
    /\ cli.exit = CliException
    /\ cli.events = <<"get_video_info">>

\* C29: in a run of the CLI the scale and the frame rate given to
\* process_video (which hands them to the interpolator and to the encoder)
\* are those of the one option the user selected, so the encoding frame rate
\* is the probed frame rate times the multiplier.
C29_RateIsSourceTimesScale ==
    CallsOf("process_video") = 1 =>
        /\ cli.selected \in DOMAIN fps_options
        /\ cli.scale = fps_options[cli.selected].scale
        /\ cli.target_fps = fps_options[cli.selected].actual
        /\ current_fps = GridRate(probe.info.fps)
        /\ cli.target_fps = current_fps * cli.scale

\* C29 witness: a run on a 30 fps source in which the user chose the second
\* option, x4, and process_video was called with 4 and 120.
C29_Witness ==
    /\ CallsOf("process_video") = 1
    /\ current_fps = 30 * Unit
    /\ cli.selected = 2
    /\ cli.scale = 4
    /\ cli.target_fps = 120 * Unit

\* ------------------------------------------------------------------------
\* Properties of overlapping calls of process_video (specification SpecTwo)
\* ------------------------------------------------------------------------

\* call i has made its temporary directory and has not yet removed it
Active(i) == runs.of[i].pc \in {"try", "finally"}

\* C17: calls of process_video that overlap in time own distinct temporary
\* directories, and until a call removes its own directory that directory
\* exists with everything the call wrote in it, whatever the other calls
\* remove in the meantime.
C17_DistinctTempDirs ==
    \A i \in DOMAIN runs.of :
        Active(i) =>
            /\ \A j \in DOMAIN runs.of :
                   (j # i /\ Active(j))
                       => runs.of[j].temp_dir # runs.of[i].temp_dir
            /\ runs.of[i].temp_dir \in tmpdirs
            /\ {df[2] : df \in {x \in runs.files :
                                   x[1] = runs.of[i].temp_dir}}
                   = runs.of[i].wrote

\* C17 witness: one call has removed its directory while the other call,
\* which started before that removal, still runs with its own directory.
C17_Witness ==
    /\ runs.of[1].pc = "done"
    /\ runs.of[2].pc = "finally"
    /\ runs.of[2].temp_dir = runs.of[1].temp_dir + 1
    /\ runs.of[2].temp_dir \in tmpdirs
    /\ runs.of[1].temp_dir \notin tmpdirs

\* ------------------------------------------------------------------------
\* Properties of overlapping calls of interpolate (specification
\* SpecTwoInterp)
\* ------------------------------------------------------------------------

\* C25: when calls of interpolate overlap in one process, every search over
\* the scripts that makes an invocation runs in the RIFE directory, and once
\* all the calls have finished the working directory of the process is the
\* one in effect before any of them started.
C25_SharedWorkingDirectory ==
    /\ \A i \in DOMAIN runs.of :
           runs.of[i].invocations > 0 => runs.of[i].loop_cwd = RifeDir
    /\ (\A i \in DOMAIN runs.of : runs.of[i].pc = "done") => cwd = StartDir

C19_InstalledOnSuccess ==
    (inst.pc = "done" /\ inst.exit = "0") => installed \subseteq inst.files

\* ------------------------------------------------------------------------
\* Properties of the uninstaller (specification SpecUninstall)
\* ------------------------------------------------------------------------

\* C20: whenever the uninstaller is confirmed with 'y' and ends with
\* status 0, neither the installation directory nor the wrapper exists
\* afterwards; when it is not confirmed, nothing is removed.
C20_RemovedOnSuccess ==
    /\ (uninst.pc = "done" /\ uninst.confirmed /\ uninst.exit = "0")
          => uninst.files \cap {"INSTALL_DIR", "wrapper"} = {}
    /\ ~uninst.confirmed => uninst.files = uninst.before

\* ------------------------------------------------------------------------
\* Properties of get_fps_options (specification SpecFps)
\* ------------------------------------------------------------------------

FpsDone == fps_pc = "done"

HasOption(actual, scale, exact) ==
    \E i \in 1 .. Len(fps_options) :
        /\ fps_options[i].actual = actual
        /\ fps_options[i].scale = scale
        /\ fps_options[i].exact = exact

\* C6: get_fps_options(30) has (actual 60, x2, exact) and (actual 120, x4,
\* exact); get_fps_options(24) has (actual 48, x2, exact);
\* get_fps_options(29.97) has an exact 60 fps option; and whenever a standard
\* target above current_fps selects multiplier m with |current_fps*m - t| < 1,
\* the returned option with multiplier m is exact with target t.
C6_ExactOptions ==
    FpsDone =>
        /\ current_fps = 30 * Unit =>
              HasOption(60 * Unit, 2, TRUE) /\ HasOption(120 * Unit, 4, TRUE)
        /\ current_fps = 24 * Unit => HasOption(48 * Unit, 2, TRUE)
        /\ current_fps * 100 = 2997 * Unit =>
              \E i \in 1 .. Len(fps_options) :
                  fps_options[i].exact /\ fps_options[i].target = 60 * Unit
        /\ \A k \in 1 .. Len(standard_fps) :
              LET t == standard_fps[k] * Unit
                  m == select_scale(current_fps, standard_fps[k])
              IN  (t > current_fps /\ m # 0 /\ Abs(current_fps * m - t) < Unit)
                  => \A i \in 1 .. Len(fps_options) :
                        fps_options[i].scale = m =>
                            fps_options[i].exact /\ fps_options[i].target = t

\* C7: for current_fps in (0, 240), every returned option has actual <= 240.
C7_ActualAtMost240 ==
    (FpsDone /\ current_fps < 240 * Unit) =>
        \A i \in 1 .. Len(fps_options) : fps_options[i].actual <= 240 * Unit

\* C8: for current_fps in (0, 240), every returned option has its multiplier
\* in {2, 4, 8} and actual = current_fps * multiplier.
C8_ActualIsProduct ==
    (FpsDone /\ current_fps < 240 * Unit) =>
        \A i \in 1 .. Len(fps_options) :
            /\ fps_options[i].scale \in {2, 4, 8}
            /\ fps_options[i].actual = current_fps * fps_options[i].scale

\* C8 witness: a non-integer rate below 240 for which all three multipliers
\* are returned, one of them as an exact option whose target is not actual.
C8_Witness ==
    /\ FpsDone
    /\ current_fps < 240 * Unit
    /\ Len(fps_options) = 3
    /\ \E i \in 1 .. Len(fps_options) :
          fps_options[i].exact /\ fps_options[i].target # fps_options[i].actual

\* C9: the returned list has no two options with the same (actual,
\* multiplier) pair and is sorted strictly ascending by actual.
C9_NoDuplicatesSorted ==
    FpsDone =>
        \A i, j \in 1 .. Len(fps_options) :
            i < j =>
                /\ fps_options[i].actual < fps_options[j].actual
                /\ <<fps_options[i].actual, fps_options[i].scale>>
                      # <<fps_options[j].actual, fps_options[j].scale>>

\* C9 witness: several targets gave the same (actual, multiplier) pair and
\* the returned list holds more than one option.
C9_Witness ==
    /\ FpsDone
    /\ Len(fps_options) >= 2
    /\ Len(collect_options(current_fps, 1)) > Len(fps_options)

\* C10: for current_fps >= 240 the returned list is empty.
C10_EmptyFrom240 ==
    (FpsDone /\ current_fps >= 240 * Unit) => fps_options = <<>>

\* C10 witness: get_fps_options has run on a rate of 240 or more and
\* returned the empty list.
C10_Witness ==
    /\ FpsDone
    /\ current_fps >= 240 * Unit
    /\ fps_options = <<>>

\* the multipliers RIFE supports
Multipliers == {2, 4, 8}

\* t (in fps) is a standard target that multiplier m covers and m / 2 does
\* not, and the product is within 1 fps of t or at most 240
CoveredBy(cur, m, t) ==
    /\ cur * m < 2 * t * Unit
    /\ t * Unit <= cur * m
    /\ \/ Abs(cur * m - t * Unit) < Unit
       \/ cur * m <= 240 * Unit

\* C22: get_fps_options returns an option with multiplier m (2, 4 or 8)
\* exactly when some standard target t has current_fps * m / 2 < t <=
\* current_fps * m with |current_fps * m - t| < 1 or current_fps * m <= 240;
\* no option comes from a target above 8 * current_fps.
C22_MultiplierCoversTarget ==
    FpsDone =>
        /\ \A m \in Multipliers :
              (\E i \in DOMAIN fps_options : fps_options[i].scale = m)
                 <=> \E k \in DOMAIN standard_fps :
                        CoveredBy(current_fps, m, standard_fps[k])
        /\ \A i \in DOMAIN fps_options :
              /\ fps_options[i].scale \in Multipliers
              /\ fps_options[i].target <= 8 * current_fps

\* C22 witness: a rate whose only option is the x8 one (no standard target
\* within x2 or x4 of it).
C22_Witness ==
    /\ FpsDone
    /\ Len(fps_options) = 1
    /\ fps_options[1].scale = 8
    /\ \E k \in DOMAIN standard_fps :
          CoveredBy(current_fps, 8, standard_fps[k])

\* C26: for an integer current_fps >= 1 the returned list is non-empty
\* exactly when 3 <= current_fps <= 120.
C26_NonEmptyFrom3To120 ==
    (FpsDone /\ current_fps % Unit = 0) =>
        (fps_options # << >>
            <=> (3 * Unit <= current_fps /\ current_fps <= 120 * Unit))

\* C26 witness: the two ends of the range, 120 fps with an option and
\* 121 fps (or 2 fps) with none.
C26_Witness ==
    /\ FpsDone
    /\ \/ current_fps = 120 * Unit /\ fps_options # << >>
       \/ current_fps = 121 * Unit /\ fps_options = << >>

\* C30: get_fps_options returns at most 3 options, no two with the same
\* multiplier, so the order by actual is the order by multiplier.
C30_OneOptionPerMultiplier ==
    FpsDone =>
        /\ Len(fps_options) <= 3
        /\ \A i, j \in DOMAIN fps_options :
              i < j => fps_options[i].scale < fps_options[j].scale

\* C30 witness: a rate with all three options.
C30_Witness ==
    /\ FpsDone
    /\ Len(fps_options) = 3
    /\ fps_options[1].scale = 2
    /\ fps_options[3].scale = 8

====
